---- MODULE Spec2Model ----
(***************************************************************************)
(* The fetch-and-compliance layer of avanza_cli (src/src/avanza_cli/http.py)*)
(* as a state machine: caller threads issue get_html and                   *)
(* check_robots_allowed calls against one shared robots cache.             *)
(***************************************************************************)
EXTENDS Integers, Sequences, FiniteSets

\* ------------------------------------------------------------------ bounds
\* calls started in a concurrent run, shared out among the threads
MaxCalls == 2
\* calls the single caller starts in a sequential run
MaxSeqCalls == 3
\* anchors on the seed page
MaxAnchors == 2
\* datastore calls in a run
MaxDbCalls == 3

\* ------------------------------------------------------------ input sets
Threads == {"t1", "t2"}
\* the threads that call get_html (the others only query the robots gate)
Fetchers == {"t1"}
AVANZA_HOST == "www.avanza.se"
Hosts == {"h1", AVANZA_HOST}
Paths == {"/a", "/b"}
Urls == [scheme : {"https"}, netloc : Hosts, path : Paths]
\* a url string the parser rejects ("https://[/a": an unclosed bracket in the
\* authority), and one without an authority ("not-a-url")
MalformedUrl == [scheme |-> "https", netloc |-> "[", path |-> "/a"]
NoHostUrl == [scheme |-> "", netloc |-> "", path |-> "/a"]
\* the same authority and path under the other scheme: "http://h1/a"
HttpUrl == [scheme |-> "http", netloc |-> "h1", path |-> "/a"]
\* the url strings get_html and check_robots_allowed are called with
GetHtmlUrls == Urls \cup {MalformedUrl}
CheckUrls == Urls \cup {MalformedUrl, NoHostUrl}
DefaultUA == "mozilla"
UserAgents == {DefaultUA, "bot"}
Bodies == {"b1", "b2"}
\* statuses the target server answers with
Statuses == {200, 304, 404, 500, 503}

\* robots.txt contents the server may serve: a sequence of groups
Group(agent, dis) == [agent |-> agent, disallow |-> dis]
RobotsBodies ==
    { << >>,
      << Group("*", {"/a"}) >>,
      << Group("mozilla", {"/a", "/b"}), Group("*", {}) >> }

\* what session.get(robots_url) can do: a response, or an exception
RobotsOutcomes ==
    { [kind |-> "response", status |-> 200, lines |-> b] : b \in RobotsBodies }
    \cup { [kind |-> "response", status |-> 404, lines |-> << >>],
           [kind |-> "ConnectTimeout", status |-> 0, lines |-> << >>] }

\* what session.get(url) can do: a response (the body matters on a 200), or a
\* transport failure
TargetOutcomes ==
    { [kind |-> "response", status |-> 200, text |-> b] : b \in Bodies }
    \cup { [kind |-> "response", status |-> s, text |-> "b1"] : s \in Statuses \ {200} }
    \cup { [kind |-> "ConnectTimeout", status |-> 0, text |-> ""] }

None == [kind |-> "None"]

\* --------------------------------------------------- the seed page's markup
\* an href attribute as written in the page: its text split the way urlsplit
\* splits it (segs are the path's segments between slashes, abs says the
\* path starts with a slash), pad says the text has surrounding whitespace
Href(scheme, netloc, abs, segs, query, fragment) ==
    [kind |-> "href", pad |-> FALSE, scheme |-> scheme, netloc |-> netloc,
     abs |-> abs, segs |-> segs, query |-> query, fragment |-> fragment]
\* href="" and href="   "
EmptyHref == Href("", "", FALSE, << >>, "", "")
BlankHref == [EmptyHref EXCEPT !.pad = TRUE]
\* a query string that carries the marker: "r=/aktier/om-aktien/x"
MarkerQuery == "r=/aktier/om-aktien/x"
\* a fragment that carries the marker: "/aktier/om-aktien/x"
MarkerFragment == "/aktier/om-aktien/x"
Hrefs ==
    { \* /aktier/om-aktien/x and /aktier/om-aktien/x#s
      Href("", "", TRUE, <<"aktier", "om-aktien", "x">>, "", ""),
      Href("", "", TRUE, <<"aktier", "om-aktien", "x">>, "", "s"),
      \* " /aktier/om-aktien/y "
      [Href("", "", TRUE, <<"aktier", "om-aktien", "y">>, "", "") EXCEPT !.pad = TRUE],
      \* https://www.avanza.se/aktier/om-aktien/x
      Href("https", "www.avanza.se", TRUE, <<"aktier", "om-aktien", "x">>, "", ""),
      \* http://www.avanza.se/..., https://m.avanza.se/..., https://www.avanza.se:443/...
      Href("http", "www.avanza.se", TRUE, <<"aktier", "om-aktien", "x">>, "", ""),
      Href("https", "m.avanza.se", TRUE, <<"aktier", "om-aktien", "x">>, "", ""),
      Href("https", "www.avanza.se:443", TRUE, <<"aktier", "om-aktien", "x">>, "", ""),
      \* /foo/aktier/om-aktien/x
      Href("", "", TRUE, <<"foo", "aktier", "om-aktien", "x">>, "", ""),
      \* ../aktier/om-aktien/x and om-aktien/x
      Href("", "", FALSE, <<"..", "aktier", "om-aktien", "x">>, "", ""),
      Href("", "", FALSE, <<"om-aktien", "x">>, "", ""),
      \* /other and /other?r=/aktier/om-aktien/x
      Href("", "", TRUE, <<"other">>, "", ""),
      Href("", "", TRUE, <<"other">>, MarkerQuery, ""),
      \* /other#/aktier/om-aktien/x and /aktier/om-aktien/x?a=1
      Href("", "", TRUE, <<"other">>, "", MarkerFragment),
      Href("", "", TRUE, <<"aktier", "om-aktien", "x">>, "a=1", ""),
      \* https://[/aktier/om-aktien/x
      Href("https", "[", TRUE, <<"aktier", "om-aktien", "x">>, "", ""),
      BlankHref }
\* an <a> element: its href attribute, or None when it has none
Anchors == Hrefs \cup {None}
AnchorSeqs == UNION { [1..n -> Anchors] : n \in 0..MaxAnchors }
\* the text get_html returns for the seed page: its length, its length
\* without surrounding whitespace, and its <a> elements in document order
Html(raw_len, stripped_len, anchors) ==
    [kind |-> "html", raw_len |-> raw_len, stripped_len |-> stripped_len,
     anchors |-> anchors]
Markups ==
    { Html(0, 0, << >>), Html(120, 0, << >>),
      Html(99, 99, << Href("", "", TRUE, <<"aktier", "om-aktien", "x">>, "", "") >>) }
    \cup { Html(100, 100, << >>) }
    \cup { Html(500, 480, a) : a \in AnchorSeqs }
\* what session.get(SEED_URL) can do
SeedOutcomes ==
    { [kind |-> "response", status |-> 200, text |-> m] : m \in Markups }
    \cup { [kind |-> "response", status |-> s, text |-> Html(0, 0, << >>)] : s \in {404, 500} }
    \cup { [kind |-> "ConnectTimeout", status |-> 0, text |-> Html(0, 0, << >>)] }
\* the session argument of harvest_links
Sessions == {None, [kind |-> "Session"]}

\* ------------------------------------------------------- program constants
STATUS_FOR_RETRY == {429, 500, 502, 503, 504}
MAX_ATTEMPTS == 5
\* link_harvester: SEED_URL (its query is "s=numberOfOwners.desc&o=20000"),
\* PATH_SUBSTR as path segments, and the shortest markup that is parsed
SEED_URL == [scheme |-> "https", netloc |-> AVANZA_HOST, path |-> "/aktier/hitta.html"]
SEED_SEGS == <<"aktier", "hitta.html">>
SEED_QUERY == "s=numberOfOwners.desc&o=20000"
MIN_HTML_LEN == 100

\* what the server of a url can answer
ServerOutcomes(u) == IF u = SEED_URL THEN SeedOutcomes ELSE TargetOutcomes

\* ---------------------------------------------------------- pure functions
\* RobotFileParser.parse: the first "*" group becomes the default entry, the
\* other groups are kept in order
parse(lines) ==
    LET stars == SelectSeq(lines, LAMBDA g : g.agent = "*")
    IN  [kind |-> "RobotFileParser",
         entries |-> SelectSeq(lines, LAMBDA g : g.agent # "*"),
         default |-> IF stars = << >> THEN << >> ELSE << Head(stars) >>]

\* RobotFileParser.can_fetch: the first entry naming the agent decides, then
\* the default entry, and with neither the url is allowed
can_fetch(rp, useragent, path) ==
    LET mine == SelectSeq(rp.entries, LAMBDA g : g.agent = useragent)
    IN  IF mine # << >> THEN path \notin Head(mine).disallow
        ELSE IF rp.default # << >> THEN path \notin Head(rp.default).disallow
        ELSE TRUE

\* urlparse(url): raises ValueError on an unclosed bracket in the authority
urlparse(u) ==
    IF u.netloc = "[" THEN [kind |-> "ValueError", scheme |-> "", netloc |-> "", path |-> ""]
    ELSE [kind |-> "ParseResult", scheme |-> u.scheme, netloc |-> u.netloc, path |-> u.path]

\* robots_url = f"{parsed.scheme}://{netloc}/robots.txt"
RobotsUrl(parsed) == [scheme |-> parsed.scheme, netloc |-> parsed.netloc]

\* the retry policy's waits, in milliseconds: wait_exponential(multiplier=0.5,
\* max=8) after attempt n, and the values wait_random(0, 0.5) is drawn from
WAIT_MULTIPLIER == 500
WAIT_MAX == 8000
Jitters == {0, 500}

wait_exponential(n) ==
    IF WAIT_MULTIPLIER * 2 ^ (n - 1) > WAIT_MAX THEN WAIT_MAX
    ELSE WAIT_MULTIPLIER * 2 ^ (n - 1)

\* the delays a caller goes through
NoWait == [kind |-> "none", ms |-> 0]
Backoff(ms) == [kind |-> "backoff", ms |-> ms]
Polite == [kind |-> "polite", ms |-> 0]

\* the parser check_robots_allowed builds from the outcome of the robots fetch
FetchedOk(out) == out.kind = "response" /\ out.status = 200

BuildParser(out) == IF FetchedOk(out) THEN parse(out.lines) ELSE parse(<< >>)

\* a store that keeps only parsers built from a 200 with rules
CacheStoreParsedOnly(cache, netloc, parser) ==
    IF parser = parse(<< >>) THEN cache ELSE [cache EXCEPT ![netloc] = parser]

\* _ROBOTS_CACHE[netloc] = rp
CacheStore(cache, netloc, parser) == [cache EXCEPT ![netloc] = parser]

HTTPError(status, n) == [kind |-> "HTTPError", status |-> status, attempt |-> n]
TransportError(n) == [kind |-> "ConnectTimeout", status |-> 0, attempt |-> n]
PermissionError(n) == [kind |-> "PermissionError", status |-> 0, attempt |-> n]
ValueError(n) == [kind |-> "ValueError", status |-> 0, attempt |-> n]
NoExc == [kind |-> "none", status |-> 0, attempt |-> 0]

\* Response.raise_for_status, on the response of attempt n
raise_for_status(r, n) ==
    IF r.status >= 400 /\ r.status < 600 THEN HTTPError(r.status, n) ELSE NoExc

\* the exception attempt n ends with, given what session.get did
AttemptException(out, n) ==
    IF out.kind = "ConnectTimeout" THEN TransportError(n)
    ELSE raise_for_status(out, n)

\* a return of the wrong attribute of the response
ResponseTextBlank(r) == ""

\* return resp.text
ResponseText(r) == r.text

\* a gate that blocks a url without an authority
EmptyNetlocBlocked(parsed) == FALSE

\* if not netloc: ... return True
EmptyNetlocVerdict(parsed) == TRUE

\* a lock taken before the robots.txt fetch and released after the insert
LockHeldDuringFetch == {"robots_fetch", "robots_wait", "robots_install"}

\* the positions between two steps at which a caller holds _robots_lock: none,
\* the two with-blocks lie inside the lookup step and inside the install step
LockHeldAt == {}

\* a gate that enforces the verdict whatever the flag says
EnforceAlways(respect, verdict) == ~verdict

\* if respect_robots: if not check_robots_allowed(...): raise PermissionError
Enforce(respect, verdict) == respect /\ ~verdict

\* a retry that skips the delay: only the first attempt sleeps
AfterGateFirstOnly(n) == IF n = 1 THEN "polite_sleep" ELSE "request"

\* after the robots check every attempt goes on to _polite_sleep()
AfterGate(n) == "polite_sleep"

\* log records: logger.<level>(<message>)
Log(level, msg) == [level |-> level, msg |-> msg]

\* a predicate that forgets the status filter
retry_on_any_http_error(exc) == exc.kind = "HTTPError"

retry_on_http_error(exc) ==
    exc.kind = "HTTPError" /\ exc.status \in STATUS_FOR_RETRY

\* a policy that stops one attempt too late
stop_after_attempt_late(n) == n > MAX_ATTEMPTS

stop_after_attempt(n) == n >= MAX_ATTEMPTS

\* reraise=False: the policy raises its own RetryError around the exception
ReraiseWrapped(exc) == [kind |-> "RetryError", status |-> 0, attempt |-> exc.attempt]

\* reraise=True: when the policy stops, the last attempt's exception is raised
Reraise(exc) == exc

\* ------------------------------------------------- link_harvester, pure part
\* a.get('href') or '', then .strip()
HrefOf(a) == IF a = None THEN EmptyHref ELSE [a EXCEPT !.pad = FALSE]

\* PATH_SUBSTR in a path: "aktier" and "om-aktien" are neighbouring segments
\* with a slash before the first and after the second
PathHasMarker(abs, segs) ==
    \E i \in 1..Len(segs) :
        /\ i + 2 <= Len(segs)
        /\ segs[i] = "aktier"
        /\ segs[i + 1] = "om-aktien"
        /\ (abs \/ i > 1)

\* PATH_SUBSTR in href, the raw text: in its path, its query or its fragment
RawHasMarker(h) ==
    \/ PathHasMarker(h.abs, h.segs)
    \/ h.query = MarkerQuery
    \/ h.fragment = MarkerFragment

\* RELATIVE_PATH_RE.match(href): ^/aktier/om-aktien/[^\s]+
RelativePathMatch(h) ==
    /\ h.scheme = "" /\ h.netloc = "" /\ h.abs
    /\ Len(h.segs) >= 3
    /\ h.segs[1] = "aktier" /\ h.segs[2] = "om-aktien" /\ h.segs[3] # ""

\* the hrefs the first loop keeps, in document order
RawHrefs(anchors) ==
    SelectSeq([i \in 1..Len(anchors) |-> HrefOf(anchors[i])],
              LAMBDA h : h # EmptyHref /\ (RawHasMarker(h) \/ RelativePathMatch(h)))

\* an absolute url in split form: (scheme, netloc, path, query, fragment)
Url(scheme, netloc, segs, query, fragment) ==
    [kind |-> "url", scheme |-> scheme, netloc |-> netloc, segs |-> segs,
     query |-> query, fragment |-> fragment]
JoinError == [kind |-> "ValueError", scheme |-> "", netloc |-> "", segs |-> << >>,
              query |-> "", fragment |-> ""]

\* urljoin's removal of "." and ".." segments
RECURSIVE RemoveDots(_, _)
RemoveDots(segs, acc) ==
    IF segs = << >> THEN acc
    ELSE IF Head(segs) = ".."
    THEN RemoveDots(Tail(segs),
                    IF acc = << >> THEN acc ELSE SubSeq(acc, 1, Len(acc) - 1))
    ELSE IF Head(segs) = "." THEN RemoveDots(Tail(segs), acc)
    ELSE RemoveDots(Tail(segs), Append(acc, Head(segs)))

\* urlsplit(urljoin(SEED_URL, href)): ValueError on an unclosed bracket in the
\* authority; an href with another scheme or with an authority is kept as it
\* is; a relative one takes scheme and host of the seed url, and its path is
\* resolved against the seed url's directory
urljoin(h) ==
    IF h.netloc = "[" THEN JoinError
    ELSE IF h.scheme # "" /\ h.scheme # "https"
    THEN Url(h.scheme, h.netloc, h.segs, h.query, h.fragment)
    ELSE IF h.netloc # ""
    THEN Url("https", h.netloc, h.segs, h.query, h.fragment)
    ELSE IF h.segs = << >>
    THEN Url("https", AVANZA_HOST, SEED_SEGS,
             IF h.query = "" THEN SEED_QUERY ELSE h.query, h.fragment)
    ELSE Url("https", AVANZA_HOST,
             RemoveDots(IF h.abs THEN h.segs
                        ELSE SubSeq(SEED_SEGS, 1, Len(SEED_SEGS) - 1) \o h.segs,
                        << >>),
             h.query, h.fragment)

\* a host test that accepts every host
HostAny(netloc) == TRUE

\* parts.netloc != AVANZA_HOST
HostOk(netloc) == netloc = AVANZA_HOST

\* the second loop's two filters
Accepted(parts) ==
    /\ parts.scheme = "https"
    /\ HostOk(parts.netloc)
    /\ PathHasMarker(TRUE, parts.segs)

\* urlunsplit((scheme, netloc, path, query, ''))
Cleaned(parts) == Url(parts.scheme, parts.netloc, parts.segs, parts.query, "")

\* the second loop: the cleaned urls in order, or the ValueError that
\* urljoin or urlsplit raises out of the loop
CleanOk(urls) == [kind |-> "ok", urls |-> urls]
CleanRaised == [kind |-> "ValueError", urls |-> << >>]
RECURSIVE CleanedUrls(_)
CleanedUrls(hrefs) ==
    IF hrefs = << >> THEN CleanOk(<< >>)
    ELSE LET parts == urljoin(Head(hrefs))
             rest == CleanedUrls(Tail(hrefs))
         IN  IF parts.kind = "ValueError" \/ rest.kind = "ValueError"
             THEN CleanRaised
             ELSE IF Accepted(parts)
             THEN CleanOk(<< Cleaned(parts) >> \o rest.urls)
             ELSE rest

\* a third loop that keeps every url
NoDedup(urls, seen) == urls

\* the third loop: drop a url already seen, keep the order
RECURSIVE DedupFrom(_, _, _)
DedupFrom(urls, seen, results) ==
    IF urls = << >> THEN results
    ELSE IF Head(urls) \in seen
    THEN DedupFrom(Tail(urls), seen, results)
    ELSE DedupFrom(Tail(urls), seen \cup {Head(urls)}, Append(results, Head(urls)))
Dedup(urls, seen) == DedupFrom(urls, seen, << >>)

\* a seen set that still holds the urls the call before returned
SeenCarried(earlier) == {earlier[i] : i \in 1..Len(earlier)}

\* seen = set(): a local of the call, whatever earlier calls returned
SeenAtStart(earlier) == {}

\* a guard that rejects only the empty text
TooShortEmptyOnly(html) == html.raw_len = 0

\* not html or len(html.strip()) < 100
TooShort(html) == html.raw_len = 0 \/ html.stripped_len < MIN_HTML_LEN

\* a guard that lets every session through
SessionNeverMissing(session) == FALSE

\* session is None
SessionMissing(session) == session = None

\* how a harvest_links call ends
HNone == [kind |-> "none", list |-> << >>, exc |-> "none"]
HReturned(list) == [kind |-> "return", list |-> list, exc |-> "none"]
HRaised(exc) == [kind |-> "raise", list |-> << >>, exc |-> exc]

\* lines 54-103 of harvest_links: parse, collect, clean, dedup, return
HarvestOf(html, earlier) ==
    LET cleaned == CleanedUrls(RawHrefs(html.anchors))
    IN  IF cleaned.kind = "ValueError" THEN HRaised("ValueError")
        ELSE HReturned(Dedup(cleaned.urls, SeenAtStart(earlier)))

\* _polite_sleep: os.getenv("HTTP_DISABLE_DELAY") gives None or a string
Unset == "None"
EnvValues == {Unset, "1", "0", "true", ""}
\* min_delay and max_delay in milliseconds, and their defaults
DEFAULT_MIN_DELAY == 500
DEFAULT_MAX_DELAY == 1500
DelayRanges ==
    { << DEFAULT_MIN_DELAY, DEFAULT_MAX_DELAY >>, << 100, 200 >>, << 0, 0 >>,
      << 1000, 1000 >> }

\* a toggle that any value of the variable switches on
DelayDisabledWhenSet(env) == env # Unset

\* os.getenv("HTTP_DISABLE_DELAY") == "1"
DelayDisabled(env) == env = "1"

\* random.uniform(a, b): a + (b - a) * random(), three of its values
uniform(a, b) == {a, a + (b - a) \div 2, b}

\* ------------------------------------------------------------------- state
VARIABLES
    ROBOTS_CACHE,    \* netloc -> parser, or None
    robots_gets,     \* netloc -> robots.txt GETs issued so far
    fail_open,       \* netloc -> a query has installed the ruleset of a failed fetch
    budget,          \* thread -> calls it may still start
    pc,              \* thread -> position
    op,              \* thread -> the call it is in: "get_html", "check", "none"
    url,             \* thread -> the call's url
    ua,              \* thread -> the user agent of the robots query
    respect_robots,  \* thread -> the get_html call's flag
    rp,              \* thread -> the parser built on a cache miss
    fetch_failed,    \* thread -> its robots.txt GET failed or was not a 200
    allowed,         \* thread -> what the last robots query answered
    attempt,         \* thread -> attempt number of the get_html call
    gets,            \* thread -> GETs of the target url in this call
    sleeps,          \* thread -> politeness sleeps in this call
    resp,            \* thread -> what the last session.get(url) did
    all500,          \* thread -> every earlier attempt answered 500
    result,          \* thread -> how the call ended
    log,             \* thread -> records logged in the call at info level and above
    waited,           \* thread -> the delay the call went through last, since its last GET of the target
    robots_urls      \* the robots.txt urls requested so far

\* link_harvester.harvest_links, called by one thread
VARIABLES
    h_budget,        \* harvest_links calls that may still start
    h_pc,            \* "idle", "fetch" (inside get_html) or "done"
    h_session,       \* the session argument of the call
    h_fetch_calls,   \* get_html calls the harvest call has made
    h_fetch,         \* how its get_html call ended
    h_parsed,        \* BeautifulSoup has parsed the markup
    h_log,           \* records logged by harvest_links at info level and above
    h_result,        \* how the harvest call ended
    h_prev           \* the harvest call before: how its get_html call and itself ended

hvars == << h_budget, h_pc, h_session, h_fetch_calls, h_fetch, h_parsed, h_log, h_result,
           h_prev >>

\* datastore: the two tables of the database file
VARIABLES
    stocks,          \* rows of table stocks
    metrics,         \* rows of table metrics
    db_budget,       \* datastore calls that may still start
    db_call,         \* the last datastore call and its arguments
    db_result,       \* how the last datastore call ended
    db_conn          \* the connection of the last datastore call: "none", "open", "closed"

dvars == << stocks, metrics, db_budget, db_call, db_result, db_conn >>

\* http._polite_sleep, called on its own
VARIABLES
    ps_budget,       \* _polite_sleep calls that may still start
    ps_env,          \* what os.getenv("HTTP_DISABLE_DELAY") gave the last call
    ps_min,          \* its min_delay, in milliseconds
    ps_max,          \* its max_delay, in milliseconds
    ps_slept,        \* the arguments of its time.sleep calls, in order
    ps_result        \* what it returned, in milliseconds
svars == << ps_budget, ps_env, ps_min, ps_max, ps_slept, ps_result >>

vars == << ROBOTS_CACHE, robots_gets, fail_open, budget, pc, op, url, ua,
           respect_robots, rp, fetch_failed, allowed, attempt, gets, sleeps,
           resp, all500, result, log, waited, robots_urls, hvars, dvars, svars >>

NoResult == [kind |-> "none", value |-> TRUE, text |-> "", exc |-> NoExc]
Returned(text) == [kind |-> "return", value |-> TRUE, text |-> text, exc |-> NoExc]
ReturnedBool(b) == [kind |-> "return", value |-> b, text |-> "", exc |-> NoExc]
Raised(exc) == [kind |-> "raise", value |-> TRUE, text |-> "", exc |-> exc]

HttpInit(b) ==
    /\ ROBOTS_CACHE = [h \in Hosts |-> None]
    /\ robots_gets = [h \in Hosts |-> 0]
    /\ fail_open = [h \in Hosts |-> FALSE]
    /\ budget = b
    /\ pc = [t \in Threads |-> "idle"]
    /\ op = [t \in Threads |-> "none"]
    /\ url = [t \in Threads |-> [scheme |-> "https", netloc |-> "h1", path |-> "/a"]]
    /\ waited = [t \in Threads |-> NoWait]
    /\ robots_urls = {}
    /\ ua = [t \in Threads |-> DefaultUA]
    /\ respect_robots = [t \in Threads |-> FALSE]
    /\ rp = [t \in Threads |-> None]
    /\ fetch_failed = [t \in Threads |-> FALSE]
    /\ allowed = [t \in Threads |-> TRUE]
    /\ attempt = [t \in Threads |-> 1]
    /\ gets = [t \in Threads |-> 0]
    /\ sleeps = [t \in Threads |-> 0]
    /\ resp = [t \in Threads |-> None]
    /\ all500 = [t \in Threads |-> TRUE]
    /\ result = [t \in Threads |-> NoResult]
    /\ log = [t \in Threads |-> {}]

\* the thread that calls harvest_links
HarvestThread == "t1"

HarvestInit(n) ==
    /\ h_budget = n
    /\ h_pc = "idle"
    /\ h_session = None
    /\ h_fetch_calls = 0
    /\ h_fetch = NoResult
    /\ h_parsed = FALSE
    /\ h_log = {}
    /\ h_result = HNone
    /\ h_prev = [fetch |-> NoResult, result |-> HNone]

\* an empty database with its schema (init_db)
DbInit(n) ==
    /\ stocks = {}
    /\ metrics = {}
    /\ db_budget = n
    /\ db_call = None
    /\ db_result = None
    /\ db_conn = "none"

\* a run of get_html and check_robots_allowed callers
\* _polite_sleep has not been called
SleepInit(n) ==
    /\ ps_budget = n
    /\ ps_env = Unset
    /\ ps_min = DEFAULT_MIN_DELAY
    /\ ps_max = DEFAULT_MAX_DELAY
    /\ ps_slept = << >>
    /\ ps_result = 0

InitWith(b) == HttpInit(b) /\ HarvestInit(0) /\ DbInit(0) /\ SleepInit(0)

\* concurrent callers: the calls are shared out among the threads in any way
Init ==
    \E b \in [Threads -> 0..MaxCalls] :
        b["t1"] + b["t2"] = MaxCalls /\ InitWith(b)

\* a single caller: every call runs to its end before the next one starts
InitSeq == InitWith([t \in Threads |-> IF t = "t1" THEN MaxSeqCalls ELSE 0])

\* ----------------------------------------------------------------- actions
\* an attempt counter that goes on from the highest count any call has reached
SharedAttemptNumber(counters) ==
    CHOOSE n \in {counters[t] : t \in Threads} : \A t \in Threads : counters[t] <= n

\* the decorator builds a new retry state for every call: attempt number 1
NewAttemptNumber(counters) == 1

\* a caller starts get_html(u, session, respect_robots=r), u and r drawn from
\* urls and respects: first attempt
GetHtmlCallOn(t, urls, respects) ==
    /\ t = HarvestThread => h_pc # "fetch"
    /\ pc[t] \in {"idle", "done"}
    /\ budget[t] > 0
    /\ \E u \in urls, r \in respects :
        /\ url' = [url EXCEPT ![t] = u]
        /\ respect_robots' = [respect_robots EXCEPT ![t] = r]
    /\ budget' = [budget EXCEPT ![t] = @ - 1]
    /\ op' = [op EXCEPT ![t] = "get_html"]
    /\ ua' = [ua EXCEPT ![t] = DefaultUA]
    /\ pc' = [pc EXCEPT ![t] = "robots_lookup"]
    /\ rp' = [rp EXCEPT ![t] = None]
    /\ allowed' = [allowed EXCEPT ![t] = TRUE]
    /\ attempt' = [attempt EXCEPT ![t] = NewAttemptNumber(attempt)]
    /\ gets' = [gets EXCEPT ![t] = 0]
    /\ sleeps' = [sleeps EXCEPT ![t] = 0]
    /\ resp' = [resp EXCEPT ![t] = None]
    /\ all500' = [all500 EXCEPT ![t] = TRUE]
    /\ result' = [result EXCEPT ![t] = NoResult]
    /\ log' = [log EXCEPT ![t] = {}]
    /\ UNCHANGED << ROBOTS_CACHE, robots_gets, fail_open, fetch_failed >>
    /\ UNCHANGED << hvars, dvars >>
    /\ waited' = [waited EXCEPT ![t] = NoWait]
    /\ UNCHANGED robots_urls
    /\ UNCHANGED svars

GetHtmlCall(t) ==
    /\ t \in Fetchers
    /\ GetHtmlCallOn(t, GetHtmlUrls, BOOLEAN)

\* a caller starts check_robots_allowed(u, session, user_agent=a), u drawn
\* from urls
CheckRobotsCallOn(t, urls) ==
    /\ t = HarvestThread => h_pc # "fetch"
    /\ pc[t] \in {"idle", "done"}
    /\ budget[t] > 0
    /\ \E u \in urls, a \in UserAgents :
        /\ url' = [url EXCEPT ![t] = u]
        /\ ua' = [ua EXCEPT ![t] = a]
    /\ budget' = [budget EXCEPT ![t] = @ - 1]
    /\ op' = [op EXCEPT ![t] = "check"]
    /\ respect_robots' = [respect_robots EXCEPT ![t] = FALSE]
    /\ pc' = [pc EXCEPT ![t] = "robots_lookup"]
    /\ rp' = [rp EXCEPT ![t] = None]
    /\ allowed' = [allowed EXCEPT ![t] = TRUE]
    /\ attempt' = [attempt EXCEPT ![t] = 1]
    /\ gets' = [gets EXCEPT ![t] = 0]
    /\ sleeps' = [sleeps EXCEPT ![t] = 0]
    /\ resp' = [resp EXCEPT ![t] = None]
    /\ all500' = [all500 EXCEPT ![t] = TRUE]
    /\ result' = [result EXCEPT ![t] = NoResult]
    /\ log' = [log EXCEPT ![t] = {}]
    /\ UNCHANGED << ROBOTS_CACHE, robots_gets, fail_open, fetch_failed >>
    /\ UNCHANGED << hvars, dvars >>
    /\ waited' = [waited EXCEPT ![t] = NoWait]
    /\ UNCHANGED robots_urls
    /\ UNCHANGED svars

CheckRobotsCall(t) == CheckRobotsCallOn(t, CheckUrls)

\* with _robots_lock: no other caller holds the lock
LockFree(t) == \A o \in Threads \ {t} : pc[o] \notin LockHeldAt

\* check_robots_allowed returns `allowed` to its caller: the top-level caller,
\* or get_html, which raises PermissionError or goes on to the polite sleep
RobotsReturn(t, verdict, logged) ==
    LET gate == IF verdict THEN logged
                ELSE logged \cup {Log("info", "robots.txt disallows")}
    IN
    /\ allowed' = [allowed EXCEPT ![t] = verdict]
    /\ IF op[t] = "check"
       THEN /\ result' = [result EXCEPT ![t] = ReturnedBool(verdict)]
            /\ pc' = [pc EXCEPT ![t] = "done"]
            /\ log' = [log EXCEPT ![t] = @ \cup gate]
       ELSE IF Enforce(respect_robots[t], verdict)
       THEN /\ result' = [result EXCEPT ![t] = Raised(PermissionError(attempt[t]))]
            /\ pc' = [pc EXCEPT ![t] = "done"]
            /\ log' = [log EXCEPT ![t] = @ \cup gate]
       ELSE /\ result' = result
            /\ pc' = [pc EXCEPT ![t] = AfterGate(attempt[t])]
            /\ log' = [log EXCEPT ![t] =
                         IF ~respect_robots[t] /\ ~verdict
                         THEN @ \cup gate \cup {Log("info", "proceeding anyway")}
                         ELSE @ \cup gate]

\* check_robots_allowed from its top: urlparse (which may raise, and nothing
\* in the function catches it), the empty-authority return, then
\* _get_robot_parser under the lock; on a hit the cached parser answers
RobotsLookup(t) ==
    /\ pc[t] = "robots_lookup"
    /\ LockFree(t)
    /\ LET parsed == urlparse(url[t])
       IN  IF parsed.kind = "ValueError"
           THEN /\ result' = [result EXCEPT ![t] = Raised(ValueError(attempt[t]))]
                /\ pc' = [pc EXCEPT ![t] = "done"]
                /\ UNCHANGED << allowed, log >>
           ELSE IF parsed.netloc = ""
           THEN RobotsReturn(t, EmptyNetlocVerdict(parsed),
                             {Log("warning", "Invalid URL for robots.txt check")})
           ELSE IF ROBOTS_CACHE[parsed.netloc] = None
           THEN /\ pc' = [pc EXCEPT ![t] = "robots_fetch"]
                /\ UNCHANGED << result, allowed, log >>
           ELSE RobotsReturn(t, can_fetch(ROBOTS_CACHE[parsed.netloc], ua[t], parsed.path), {})
    /\ UNCHANGED << ROBOTS_CACHE, robots_gets, fail_open, budget, op, url,
                    ua, respect_robots, rp, fetch_failed, attempt, gets, sleeps, resp,
                    all500 >>
    /\ UNCHANGED << hvars, dvars >>
    /\ UNCHANGED << waited, robots_urls >>
    /\ UNCHANGED svars

\* cache miss: session.get(robots_url) is sent
RobotsFetchSend(t) ==
    /\ pc[t] = "robots_fetch"
    /\ robots_gets' = [robots_gets EXCEPT ![url[t].netloc] = @ + 1]
    /\ pc' = [pc EXCEPT ![t] = "robots_wait"]
    /\ UNCHANGED << ROBOTS_CACHE, fail_open, budget, op, url, ua,
                    respect_robots, rp, fetch_failed, allowed, attempt, gets, sleeps, resp,
                    all500, result, log >>
    /\ UNCHANGED << hvars, dvars >>
    /\ robots_urls' = robots_urls \cup {RobotsUrl(urlparse(url[t]))}
    /\ UNCHANGED waited
    /\ UNCHANGED svars

\* the robots fetch ends (200, another status, or an exception) and the
\* parser is built from it
RobotsFetchRecv(t) ==
    /\ pc[t] = "robots_wait"
    /\ \E out \in RobotsOutcomes :
        /\ rp' = [rp EXCEPT ![t] = BuildParser(out)]
        /\ fetch_failed' = [fetch_failed EXCEPT ![t] = ~FetchedOk(out)]
    /\ pc' = [pc EXCEPT ![t] = "robots_install"]
    /\ UNCHANGED << ROBOTS_CACHE, robots_gets, fail_open, budget, op, url, ua,
                    respect_robots, allowed, attempt, gets, sleeps, resp,
                    all500, result, log >>
    /\ UNCHANGED << hvars, dvars >>
    /\ UNCHANGED << waited, robots_urls >>
    /\ UNCHANGED svars

\* _ROBOTS_CACHE[netloc] = rp under the lock, then rp answers the query
RobotsInstall(t) ==
    /\ pc[t] = "robots_install"
    /\ LockFree(t)
    /\ ROBOTS_CACHE' = CacheStore(ROBOTS_CACHE, url[t].netloc, rp[t])
    /\ RobotsReturn(t, can_fetch(rp[t], ua[t], url[t].path),
                    IF fetch_failed[t]
                    THEN {Log("info", "robots.txt not fetched, assuming allowed")}
                    ELSE {})
    /\ fail_open' = [fail_open EXCEPT ![url[t].netloc] = @ \/ fetch_failed[t]]
    /\ rp' = [rp EXCEPT ![t] = None]
    /\ fetch_failed' = [fetch_failed EXCEPT ![t] = FALSE]
    /\ UNCHANGED << robots_gets, budget, op, url, ua, respect_robots,
                    attempt, gets, sleeps, resp, all500 >>
    /\ UNCHANGED << hvars, dvars >>
    /\ UNCHANGED << waited, robots_urls >>
    /\ UNCHANGED svars

\* _polite_sleep() before the attempt's GET
PoliteSleep(t) ==
    /\ pc[t] = "polite_sleep"
    /\ sleeps' = [sleeps EXCEPT ![t] = @ + 1]
    /\ pc' = [pc EXCEPT ![t] = "request"]
    /\ UNCHANGED << ROBOTS_CACHE, robots_gets, fail_open, budget, op, url,
                    ua, respect_robots, rp, fetch_failed, allowed, attempt, gets, resp,
                    all500, result, log >>
    /\ UNCHANGED << hvars, dvars >>
    /\ waited' = [waited EXCEPT ![t] = Polite]
    /\ UNCHANGED robots_urls
    /\ UNCHANGED svars

\* session.get(url), raise_for_status, and the retry policy's decision
SessionGetFrom(t, outcomes) ==
    /\ pc[t] = "request"
    /\ gets' = [gets EXCEPT ![t] = @ + 1]
    /\ \E out \in outcomes :
        LET exc == AttemptException(out, attempt[t])
        IN  /\ resp' = [resp EXCEPT ![t] = out]
            /\ IF exc = NoExc
               THEN /\ result' = [result EXCEPT ![t] = Returned(ResponseText(out))]
                    /\ pc' = [pc EXCEPT ![t] = "done"]
               ELSE IF ~retry_on_http_error(exc)
               THEN /\ result' = [result EXCEPT ![t] = Raised(exc)]
                    /\ pc' = [pc EXCEPT ![t] = "done"]
               ELSE IF stop_after_attempt(attempt[t])
               THEN /\ result' = [result EXCEPT ![t] = Raised(Reraise(exc))]
                    /\ pc' = [pc EXCEPT ![t] = "done"]
               ELSE /\ result' = result
                    /\ pc' = [pc EXCEPT ![t] = "retry_wait"]
    /\ UNCHANGED << ROBOTS_CACHE, robots_gets, fail_open, budget, op, url,
                    ua, respect_robots, rp, fetch_failed, allowed, attempt, sleeps, all500,
                    log >>
    /\ UNCHANGED << hvars, dvars >>
    /\ waited' = [waited EXCEPT ![t] = NoWait]
    /\ UNCHANGED robots_urls
    /\ UNCHANGED svars

SessionGet(t) == SessionGetFrom(t, ServerOutcomes(url[t]))

\* the backoff wait, then the decorated function runs again from its top
RetryWait(t) ==
    /\ pc[t] = "retry_wait"
    /\ attempt' = [attempt EXCEPT ![t] = @ + 1]
    /\ all500' = [all500 EXCEPT ![t] = @ /\ resp[t].status = 500]
    /\ resp' = [resp EXCEPT ![t] = None]
    /\ pc' = [pc EXCEPT ![t] = "robots_lookup"]
    /\ UNCHANGED << ROBOTS_CACHE, robots_gets, fail_open, budget, op, url,
                    ua, respect_robots, rp, fetch_failed, allowed, gets, sleeps, result,
                    log >>
    /\ UNCHANGED << hvars, dvars >>
    /\ \E jitter \in Jitters :
        waited' = [waited EXCEPT ![t] = Backoff(wait_exponential(attempt[t]) + jitter)]
    /\ UNCHANGED robots_urls
    /\ UNCHANGED svars

Next ==
    \E t \in Threads :
        \/ GetHtmlCall(t)
        \/ CheckRobotsCall(t)
        \/ RobotsLookup(t)
        \/ RobotsFetchSend(t)
        \/ RobotsFetchRecv(t)
        \/ RobotsInstall(t)
        \/ PoliteSleep(t)
        \/ SessionGet(t)
        \/ RetryWait(t)

Spec == Init /\ [][Next]_vars

SeqSpec == InitSeq /\ [][Next]_vars

\* the steps a thread takes inside a call
Step(t) ==
    \/ RobotsLookup(t)
    \/ RobotsFetchSend(t)
    \/ RobotsFetchRecv(t)
    \/ RobotsInstall(t)
    \/ PoliteSleep(t)
    \/ SessionGet(t)
    \/ RetryWait(t)

\* ------------------------------------------------- link_harvester, actions
\* harvest_links(session) starts: without a session it returns [] at once,
\* otherwise it calls get_html(SEED_URL, session)
HarvestCall ==
    /\ h_budget > 0
    /\ h_pc \in {"idle", "done"}
    /\ pc[HarvestThread] \in {"idle", "done"}
    /\ h_budget' = h_budget - 1
    /\ h_parsed' = FALSE
    /\ h_fetch' = NoResult
    /\ h_prev' = [fetch |-> h_fetch, result |-> h_result]
    /\ \E s \in Sessions :
        /\ h_session' = s
        /\ IF SessionMissing(s)
           THEN /\ h_log' = {Log("warning", "No session provided")}
                /\ h_result' = HReturned(<< >>)
                /\ h_pc' = "done"
                /\ h_fetch_calls' = 0
                /\ UNCHANGED << pc, op, url, ua, respect_robots, rp, allowed,
                                attempt, gets, sleeps, resp, all500, result, log,
                                waited >>
           ELSE /\ h_log' = {}
                /\ h_result' = HNone
                /\ h_pc' = "fetch"
                /\ h_fetch_calls' = 1
                /\ url' = [url EXCEPT ![HarvestThread] = SEED_URL]
                /\ respect_robots' = [respect_robots EXCEPT ![HarvestThread] = FALSE]
                /\ op' = [op EXCEPT ![HarvestThread] = "get_html"]
                /\ ua' = [ua EXCEPT ![HarvestThread] = DefaultUA]
                /\ pc' = [pc EXCEPT ![HarvestThread] = "robots_lookup"]
                /\ rp' = [rp EXCEPT ![HarvestThread] = None]
                /\ allowed' = [allowed EXCEPT ![HarvestThread] = TRUE]
                /\ attempt' = [attempt EXCEPT ![HarvestThread] = NewAttemptNumber(attempt)]
                /\ gets' = [gets EXCEPT ![HarvestThread] = 0]
                /\ sleeps' = [sleeps EXCEPT ![HarvestThread] = 0]
                /\ resp' = [resp EXCEPT ![HarvestThread] = None]
                /\ all500' = [all500 EXCEPT ![HarvestThread] = TRUE]
                /\ result' = [result EXCEPT ![HarvestThread] = NoResult]
                /\ log' = [log EXCEPT ![HarvestThread] = {}]
                /\ waited' = [waited EXCEPT ![HarvestThread] = NoWait]
    /\ UNCHANGED << ROBOTS_CACHE, robots_gets, fail_open, budget, fetch_failed, dvars >>
    /\ UNCHANGED robots_urls
    /\ UNCHANGED svars

\* get_html has ended: its exception or a short text gives [], a longer text
\* is parsed and harvested
HarvestResume ==
    /\ h_pc = "fetch"
    /\ pc[HarvestThread] = "done"
    /\ h_pc' = "done"
    /\ h_fetch' = result[HarvestThread]
    /\ LET r == result[HarvestThread]
       IN  IF r.kind = "raise"
           THEN /\ h_log' = h_log \cup {Log("warning", "Failed to fetch seed page")}
                /\ h_result' = HReturned(<< >>)
                /\ h_parsed' = FALSE
           ELSE IF TooShort(r.text)
           THEN /\ h_log' = h_log \cup {Log("warning", "Received empty or very short HTML content")}
                /\ h_result' = HReturned(<< >>)
                /\ h_parsed' = FALSE
           ELSE /\ h_parsed' = TRUE
                /\ h_result' = HarvestOf(r.text, h_prev.result.list)
                /\ h_log' = IF HarvestOf(r.text, h_prev.result.list).kind = "return"
                             THEN h_log \cup {Log("info", "Harvested stock links")}
                             ELSE h_log
    /\ UNCHANGED << ROBOTS_CACHE, robots_gets, fail_open, budget, pc, op, url, ua,
                    respect_robots, rp, fetch_failed, allowed, attempt, gets, sleeps,
                    resp, all500, result, log, h_budget, h_session, h_fetch_calls,
                    h_prev, dvars >>
    /\ UNCHANGED << waited, robots_urls >>
    /\ UNCHANGED svars

\* one harvest_links call by one thread, which may query the robots gate once
\* before it
InitHarvest ==
    /\ HttpInit([t \in Threads |-> IF t = HarvestThread THEN 1 ELSE 0])
    /\ HarvestInit(1)
    /\ DbInit(0)
    /\ SleepInit(0)

HarvestNext ==
    \/ h_pc = "idle" /\ CheckRobotsCall(HarvestThread)
    \/ HarvestCall
    \/ Step(HarvestThread)
    \/ HarvestResume

HarvestSpec == InitHarvest /\ [][HarvestNext]_vars

\* harvest_links called again and again on a seed page that seldom changes
MaxHarvests == 2
RepeatMarkups ==
    { Html(500, 480, << Href("", "", TRUE, <<"aktier", "om-aktien", "x">>, "", ""),
                        [Href("", "", TRUE, <<"aktier", "om-aktien", "y">>, "", "") EXCEPT !.pad = TRUE],
                        Href("", "", TRUE, <<"aktier", "om-aktien", "x">>, "", "s") >>),
      Html(500, 480, << [Href("", "", TRUE, <<"aktier", "om-aktien", "y">>, "", "") EXCEPT !.pad = TRUE] >>),
      Html(99, 99, << Href("", "", TRUE, <<"aktier", "om-aktien", "x">>, "", "") >>) }
RepeatOutcomes ==
    { [kind |-> "response", status |-> 200, text |-> m] : m \in RepeatMarkups }
    \cup { [kind |-> "response", status |-> 500, text |-> Html(0, 0, << >>)] }

InitRepeat ==
    /\ HttpInit([t \in Threads |-> 0])
    /\ HarvestInit(MaxHarvests)
    /\ DbInit(0)
    /\ SleepInit(0)

RepeatNext ==
    \/ HarvestCall
    \/ RobotsLookup(HarvestThread)
    \/ RobotsFetchSend(HarvestThread)
    \/ RobotsFetchRecv(HarvestThread)
    \/ RobotsInstall(HarvestThread)
    \/ PoliteSleep(HarvestThread)
    \/ SessionGetFrom(HarvestThread, RepeatOutcomes)
    \/ RetryWait(HarvestThread)
    \/ HarvestResume

RepeatSpec == InitRepeat /\ [][RepeatNext]_vars

\* _polite_sleep(min_delay, max_delay) as a whole
PoliteSleepCall ==
    /\ ps_budget > 0
    /\ ps_budget' = ps_budget - 1
    /\ \E env \in EnvValues, range \in DelayRanges :
        /\ ps_env' = env
        /\ ps_min' = range[1]
        /\ ps_max' = range[2]
        /\ IF DelayDisabled(env)
           THEN /\ ps_slept' = << >>
                /\ ps_result' = 0
           ELSE \E delay \in uniform(range[1], range[2]) :
                /\ ps_slept' = << delay >>
                /\ ps_result' = delay
    /\ UNCHANGED << ROBOTS_CACHE, robots_gets, fail_open, budget, pc, op, url, ua,
                    respect_robots, rp, fetch_failed, allowed, attempt, gets, sleeps,
                    resp, all500, result, log, waited, robots_urls, hvars, dvars >>

MaxSleepCalls == 3

InitSleep ==
    /\ HttpInit([t \in Threads |-> 0])
    /\ HarvestInit(0)
    /\ DbInit(0)
    /\ SleepInit(MaxSleepCalls)

SleepNext == PoliteSleepCall

SleepSpec == InitSleep /\ [][SleepNext]_vars

\* two threads query the robots gate for one authority under both schemes
SchemeUrls == {HttpUrl, [scheme |-> "https", netloc |-> "h1", path |-> "/a"]}

InitScheme ==
    /\ HttpInit([t \in Threads |-> IF t = "t1" THEN 2 ELSE 1])
    /\ HarvestInit(0)
    /\ DbInit(0)
    /\ SleepInit(0)

SchemeNext ==
    \E t \in Threads :
        \/ CheckRobotsCallOn(t, SchemeUrls)
        \/ RobotsLookup(t)
        \/ RobotsFetchSend(t)
        \/ RobotsFetchRecv(t)
        \/ RobotsInstall(t)

SchemeSpec == InitScheme /\ [][SchemeNext]_vars

\* two threads fetch the same url at the same time, and one of them once more
RetryUrl == [scheme |-> "https", netloc |-> "h1", path |-> "/a"]

InitRetry ==
    /\ HttpInit([t \in Threads |-> IF t = "t1" THEN 2 ELSE 1])
    /\ HarvestInit(0)
    /\ DbInit(0)
    /\ SleepInit(0)

RetryNext ==
    \E t \in Threads :
        \/ GetHtmlCallOn(t, {RetryUrl}, {FALSE})
        \/ Step(t)

RetrySpec == InitRetry /\ [][RetryNext]_vars

\* ---------------------------------------------------------------- datastore
\* arguments of the datastore calls (" " is a text of whitespace only)
Tickers == {"ABB", "SEB", " "}
Names == {"n1", "n2"}
StockUrl == "https://www.avanza.se/aktier/om-aktien/x"
StockUrls == {StockUrl, "https://www.avanza.se/aktier/om-aktien/y"}
StockIds == {1, 2}
MetricKeys == {"pe", " "}
MetricValues == {"10", "11", ""}
\* as_of_date: an ISO date, or the default None
NoDate == "None"
Dates == {NoDate, "2024-01-01"}
\* datetime.date.today().isoformat()
Today == "2024-01-02"

\* text.strip()
StripText(text) == IF text = " " THEN "" ELSE text

\* INTEGER PRIMARY KEY: a new row gets the largest id of the table plus one
NewId(rows) ==
    IF rows = {} THEN 1
    ELSE 1 + CHOOSE n \in {r.id : r \in rows} : \A r \in rows : r.id <= n

DbReturned(id) == [kind |-> "return", id |-> id, exc |-> "none"]
DbRaised(exc) == [kind |-> "raise", id |-> 0, exc |-> exc]

\* the rows of metrics that hold the natural key (stock_id, metric_key, as_of_date)
SameKey(rows, stock_id, metric_key, as_of_date) ==
    { r \in rows : /\ r.stock_id = stock_id
                   /\ r.metric_key = metric_key
                   /\ r.as_of_date = as_of_date }

\* INSERT INTO metrics(...) VALUES(?, ?, ?, ?) RETURNING id inside write_txn:
\* the foreign key and the UNIQUE constraint raise IntegrityError and the
\* transaction is rolled back, otherwise the new row's id is returned (the
\* fallback without RETURNING inserts the same row and reads the same id)
InsertMetricRow(rows, stock_rows, stock_id, metric_key, metric_value, as_of_date) ==
    LET new == [id |-> NewId(rows), stock_id |-> stock_id, metric_key |-> metric_key,
                metric_value |-> metric_value, as_of_date |-> as_of_date]
    IN  IF \A st \in stock_rows : st.id # stock_id
        THEN [rows |-> rows, result |-> DbRaised("IntegrityError")]
        ELSE IF SameKey(rows, stock_id, metric_key, as_of_date) # {}
        THEN [rows |-> rows, result |-> DbRaised("IntegrityError")]
        ELSE [rows |-> rows \cup {new}, result |-> DbReturned(new.id)]

\* an insert without the conflict clause's update: the old row is kept as it is
UpsertStockRowKeepOld(rows, ticker, name, avanza_url) ==
    LET same == { r \in rows : r.ticker = ticker }
        new == [id |-> NewId(rows), ticker |-> ticker, name |-> name,
                avanza_url |-> avanza_url]
    IN  IF same # {}
        THEN [rows |-> rows, result |-> DbReturned((CHOOSE r \in same : TRUE).id)]
        ELSE [rows |-> rows \cup {new}, result |-> DbReturned(new.id)]

\* INSERT INTO stocks(...) ON CONFLICT(ticker) DO UPDATE SET name, avanza_url
\* RETURNING id
UpsertStockRow(rows, ticker, name, avanza_url) ==
    LET same == { r \in rows : r.ticker = ticker }
        new == [id |-> NewId(rows), ticker |-> ticker, name |-> name,
                avanza_url |-> avanza_url]
    IN  IF same # {}
        THEN LET old == CHOOSE r \in same : TRUE
             IN  [rows |-> (rows \ {old})
                             \cup {[old EXCEPT !.name = name, !.avanza_url = avanza_url]},
                  result |-> DbReturned(old.id)]
        ELSE [rows |-> rows \cup {new}, result |-> DbReturned(new.id)]

\* what conn.commit() can do: succeed, or raise sqlite3.OperationalError
CommitOk == "ok"
CommitOutcomes == {CommitOk, "OperationalError"}

\* a transaction that keeps what its statements wrote when it fails
write_txn_no_rollback(before, done, commit) ==
    IF done.result.kind = "raise" THEN done
    ELSE IF commit # CommitOk THEN [rows |-> done.rows, result |-> DbRaised(commit)]
    ELSE done

\* with write_txn(conn): BEGIN IMMEDIATE, the body, then conn.commit(); an
\* exception of the body or of the commit rolls back to the rows before and
\* is raised again
write_txn(before, done, commit) ==
    IF done.result.kind = "raise" THEN [rows |-> before, result |-> done.result]
    ELSE IF commit # CommitOk THEN [rows |-> before, result |-> DbRaised(commit)]
    ELSE done

\* finally: conn.close()
CloseConn(conn) == "closed"

\* upsert_stock(ticker, name, avanza_url), its commit drawn from commits
UpsertStockWith(commits) ==
    /\ db_budget > 0
    /\ db_budget' = db_budget - 1
    /\ \E ticker \in Tickers, name \in Names, avanza_url \in StockUrls, commit \in commits :
        /\ db_call' = [op |-> "upsert_stock", ticker |-> ticker, name |-> name,
                       avanza_url |-> avanza_url]
        /\ IF StripText(ticker) = ""
           THEN /\ db_result' = DbRaised("ValueError")
                /\ stocks' = stocks
                /\ db_conn' = "none"
           ELSE LET done == write_txn(stocks,
                                      UpsertStockRow(stocks, ticker, name, avanza_url),
                                      commit)
                IN  /\ stocks' = done.rows
                    /\ db_result' = done.result
                    /\ db_conn' = CloseConn("open")
    /\ UNCHANGED << metrics, ROBOTS_CACHE, robots_gets, fail_open, budget, pc, op, url,
                    ua, respect_robots, rp, fetch_failed, allowed, attempt, gets,
                    sleeps, resp, all500, result, log, hvars >>
    /\ UNCHANGED << waited, robots_urls >>
    /\ UNCHANGED svars

UpsertStock == UpsertStockWith({CommitOk})

\* insert_metric(stock_id, metric_key, metric_value, as_of_date), its commit
\* drawn from commits
InsertMetricWith(commits) ==
    /\ db_budget > 0
    /\ db_budget' = db_budget - 1
    /\ \E stock_id \in StockIds, metric_key \in MetricKeys,
          metric_value \in MetricValues, date \in Dates, commit \in commits :
        LET as_of_date == IF date = NoDate THEN Today ELSE date
        IN  /\ db_call' = [op |-> "insert_metric", stock_id |-> stock_id,
                           metric_key |-> metric_key, metric_value |-> metric_value,
                           as_of_date |-> as_of_date,
                           before |-> SameKey(metrics, stock_id, metric_key, as_of_date)]
            /\ IF StripText(metric_key) = "" \/ StripText(metric_value) = ""
               THEN /\ db_result' = DbRaised("ValueError")
                    /\ metrics' = metrics
                    /\ db_conn' = "none"
               ELSE LET done == write_txn(metrics,
                                          InsertMetricRow(metrics, stocks, stock_id,
                                                          metric_key, metric_value,
                                                          as_of_date),
                                          commit)
                    IN  /\ metrics' = done.rows
                        /\ db_result' = done.result
                        /\ db_conn' = CloseConn("open")
    /\ UNCHANGED << stocks, ROBOTS_CACHE, robots_gets, fail_open, budget, pc, op, url,
                    ua, respect_robots, rp, fetch_failed, allowed, attempt, gets,
                    sleeps, resp, all500, result, log, hvars >>
    /\ UNCHANGED << waited, robots_urls >>
    /\ UNCHANGED svars

InsertMetric == InsertMetricWith({CommitOk})

InitDb ==
    /\ HttpInit([t \in Threads |-> 0])
    /\ HarvestInit(0)
    /\ DbInit(MaxDbCalls)
    /\ SleepInit(0)

DbNext == UpsertStock \/ InsertMetric

DbSpec == InitDb /\ [][DbNext]_vars

\* the same calls on a database whose commits can fail
TxnNext == UpsertStockWith(CommitOutcomes) \/ InsertMetricWith(CommitOutcomes)

TxnSpec == InitDb /\ [][TxnNext]_vars

\* ------------------------------------------------------------------ claims
InGetHtml(t) == op[t] = "get_html" /\ pc[t] \notin {"idle", "done"}
EndedGetHtml(t) == op[t] = "get_html" /\ pc[t] = "done"

\* steps left in the current attempt, and in the call: a measure that every
\* step of a get_html call lowers
PcRank(p) ==
    CASE p = "robots_lookup" -> 7
      [] p = "robots_fetch" -> 6
      [] p = "robots_wait" -> 5
      [] p = "robots_install" -> 4
      [] p = "polite_sleep" -> 3
      [] p = "request" -> 2
      [] p = "retry_wait" -> 1
      [] OTHER -> 0
Rank(t) == (5 - attempt[t]) * 8 + PcRank(pc[t])

\* C1: every get_html call ends (while it runs it can always take a step, and
\* each of its steps lowers a natural-number measure) having issued at most 5
\* GETs of the target; a further attempt starts only from the retry decision,
\* which is taken only on a response with status in {429, 500, 502, 503, 504}
\* and only while fewer than 5 attempts have been made
C1_BoundedRetry ==
    /\ [](\A t \in Threads :
            /\ gets[t] <= 5
            /\ attempt[t] <= 5
            /\ InGetHtml(t) => Rank(t) > 0 /\ ENABLED Step(t)
            /\ pc[t] = "retry_wait" =>
                  /\ resp[t].kind = "response"
                  /\ resp[t].status \in {429, 500, 502, 503, 504}
                  /\ attempt[t] < 5)
    /\ [][\A t \in Threads :
            /\ attempt'[t] > attempt[t] => pc[t] = "retry_wait"
            /\ InGetHtml(t) /\ pc'[t] # pc[t] =>
                  Rank(t)' < Rank(t) /\ op'[t] = op[t]]_vars

\* a call that used all 5 attempts and ended
C1_Witness ==
    \E t \in Threads : EndedGetHtml(t) /\ gets[t] = 5 /\ attempt[t] = 5

\* C2: when the first N-1 attempts answered 500 and the N-th answered a
\* success, the call returns the text of the N-th response after exactly N
\* GETs of the target, 1 <= N <= 5
C2_SuccessAfterRetries ==
    \A t \in Threads :
        ( /\ EndedGetHtml(t)
          /\ all500[t]
          /\ resp[t].kind = "response"
          /\ resp[t].status \in 200..299 )
        => /\ result[t] = Returned(resp[t].text)
           /\ gets[t] = attempt[t]
           /\ attempt[t] \in 1..5

\* four answers of 500, then a 200 whose text is returned
C2_Witness ==
    \E t \in Threads :
        /\ EndedGetHtml(t) /\ all500[t] /\ attempt[t] = 5 /\ gets[t] = 5
        /\ resp[t].kind = "response" /\ resp[t].status = 200
        /\ result[t] = Returned("b2")

\* the attempt just made failed in a way the policy does not retry
TerminalFailure(r) ==
    \/ r.kind = "ConnectTimeout"
    \/ /\ r.kind = "response"
       /\ r.status \in 400..599
       /\ r.status \notin {429, 500, 502, 503, 504}

\* C3: a transport failure, or an HTTP error with a status outside the
\* retryable set, ends the call at the attempt where it occurs with that same
\* error and no further GET; on the first attempt that is exactly one GET and
\* exactly one politeness sleep
C3_NoRetryOnTerminalFailure ==
    \A t \in Threads :
        (op[t] = "get_html" /\ TerminalFailure(resp[t]))
        => /\ pc[t] = "done"
           /\ result[t].kind = "raise"
           /\ result[t].exc.attempt = attempt[t]
           /\ resp[t].kind = "ConnectTimeout" => result[t].exc.kind = "ConnectTimeout"
           /\ resp[t].kind = "response" =>
                 /\ result[t].exc.kind = "HTTPError"
                 /\ result[t].exc.status = resp[t].status
           /\ gets[t] = attempt[t]
           /\ attempt[t] = 1 => gets[t] = 1 /\ sleeps[t] = 1

\* a 404 on the third attempt, and a timeout on the first
C3_Witness ==
    /\ \E t \in Threads :
          /\ EndedGetHtml(t) /\ attempt[t] = 3
          /\ resp[t].kind = "response" /\ resp[t].status = 404
          /\ result[t] = Raised(HTTPError(404, 3))

\* C4: when all 5 attempts end with a retryable status, the call raises the
\* HTTPError of the fifth attempt, with that attempt's status
C4_LastErrorReraised ==
    \A t \in Threads :
        ( /\ EndedGetHtml(t)
          /\ attempt[t] = 5
          /\ resp[t].kind = "response"
          /\ resp[t].status \in {429, 500, 502, 503, 504} )
        => /\ result[t].kind = "raise"
           /\ result[t].exc.kind = "HTTPError"
           /\ result[t].exc.status = resp[t].status
           /\ result[t].exc.attempt = 5

\* earlier attempts answered 500 and the fifth 503: the 503 error is raised
C4_Witness ==
    \E t \in Threads :
        /\ EndedGetHtml(t) /\ attempt[t] = 5 /\ all500[t]
        /\ resp[t].kind = "response" /\ resp[t].status = 503
        /\ result[t] = Raised(HTTPError(503, 5))

\* C5: when the robots gate answers "disallowed" and respect_robots is true,
\* get_html raises PermissionError with no GET of the target and no politeness
\* sleep in the call, and the call ends after its first attempt
C5_PermissionErrorBeforeAnyGet ==
    \A t \in Threads :
        (op[t] = "get_html" /\ respect_robots[t] /\ ~allowed[t])
        => /\ pc[t] = "done"
           /\ result[t].kind = "raise"
           /\ result[t].exc.kind = "PermissionError"
           /\ gets[t] = 0
           /\ sleeps[t] = 0
           /\ attempt[t] = 1

\* the robots.txt fetches of a host that are in flight
InFlight(h) == {t \in Threads : pc[t] = "robots_wait" /\ url[t].netloc = h}

\* C6: under any interleaving, two robots.txt fetches of one host are never
\* in flight together, and at most one robots.txt fetch per host is issued
C6_SingleRobotsFetch ==
    \A h \in Hosts : Cardinality(InFlight(h)) <= 1 /\ robots_gets[h] <= 1

\* C7: once a ruleset is installed for a host, that cache entry is never
\* replaced or changed
C7_CacheEntryNeverReplaced ==
    [][\A h \in Hosts :
          ROBOTS_CACHE[h] # None => ROBOTS_CACHE'[h] = ROBOTS_CACHE[h]]_vars

\* C8: with one caller, at most one robots.txt GET is issued per host: a
\* query that ended has left a ruleset cached for its host (whatever the
\* fetch did), and a host with a cached ruleset is never fetched again nor
\* its entry changed
C8_SequentialSingleFetch ==
    /\ [](\A h \in Hosts :
            /\ robots_gets[h] <= 1
            /\ ROBOTS_CACHE[h] # None => robots_gets[h] = 1
            /\ \A t \in Threads :
                  (pc[t] = "done" /\ url[t].netloc = h) => ROBOTS_CACHE[h] # None)
    /\ [][\A h \in Hosts :
            ROBOTS_CACHE[h] # None =>
                /\ robots_gets'[h] = robots_gets[h]
                /\ ROBOTS_CACHE'[h] = ROBOTS_CACHE[h]]_vars

\* two queries of one host ended, the host's only fetch having failed
C8_Witness ==
    \E t \in Threads :
        /\ pc[t] = "done" /\ op[t] = "check"
        /\ url[t].netloc \in Hosts
        /\ budget[t] = MaxSeqCalls - 2
        /\ robots_gets[url[t].netloc] = 1
        /\ fail_open[url[t].netloc]
        /\ \A h \in Hosts \ {url[t].netloc} : robots_gets[h] = 0

\* C9: a query whose robots.txt fetch failed or was not a 200 returns true,
\* and so does every query of that host that starts after that query has
\* installed its ruleset
C9_FailOpenForever ==
    [][\A t \in Threads :
          /\ (pc[t] = "robots_install" /\ fetch_failed[t] /\ pc'[t] # pc[t])
             => allowed'[t]
          /\ ( /\ pc[t] = "robots_lookup"
               /\ url[t].netloc \in Hosts
               /\ fail_open[url[t].netloc]
               /\ pc'[t] # pc[t] )
             => pc'[t] # "robots_fetch" /\ allowed'[t]]_vars

\* C10: get_html returns the response text only for a 2xx status; a status
\* that is neither 2xx nor in {429, 500, 502, 503, 504} ends the call with an
\* error at that attempt
C10_OnlySuccessStatusReturns ==
    \A t \in Threads :
        (EndedGetHtml(t) /\ resp[t].kind = "response")
        => /\ result[t].kind = "return" => resp[t].status \in 200..299
           /\ ( /\ resp[t].status \notin 200..299
                /\ resp[t].status \notin {429, 500, 502, 503, 504} )
              => result[t].kind = "raise"

\* C15: check_robots_allowed returns a boolean and never raises, whatever
\* the url string, the session and the robots.txt body are
C15_RobotsGateNeverRaises ==
    \A t \in Threads :
        (op[t] = "check" /\ pc[t] = "done")
        => /\ result[t].kind = "return"
           /\ result[t].value \in BOOLEAN

\* the outcome a finished attempt has by its response alone
OutcomeOf(r, n) ==
    IF AttemptException(r, n) = NoExc THEN Returned(r.text)
    ELSE Raised(AttemptException(r, n))

\* C16: in a get_html call the politeness sleeps and the GETs of the target
\* alternate, sleep first: each GET is issued from the step right after a
\* sleep of its own, every attempt that reaches the request has slept once,
\* and when the call ends the two counts are equal
C16_SleepBeforeEveryGet ==
    /\ [](\A t \in Threads :
            op[t] = "get_html" =>
                /\ pc[t] = "request" => sleeps[t] = gets[t] + 1 /\ sleeps[t] = attempt[t]
                /\ pc[t] # "request" => sleeps[t] = gets[t]
                /\ resp[t] # None => gets[t] = attempt[t])
    /\ [][\A t \in Threads :
            (op[t] = "get_html" /\ op'[t] = "get_html") =>
                /\ gets'[t] > gets[t] =>
                      /\ pc[t] = "request"
                      /\ gets'[t] = gets[t] + 1
                      /\ sleeps'[t] = sleeps[t]
                /\ (pc'[t] = "request" /\ pc[t] # "request") =>
                      /\ sleeps'[t] = sleeps[t] + 1
                      /\ gets'[t] = gets[t]
                /\ (pc[t] = "request" /\ pc'[t] # "request") =>
                      gets'[t] = gets[t] + 1]_vars

\* a call that ended after three attempts: three sleeps, three GETs
C16_Witness ==
    \E t \in Threads :
        EndedGetHtml(t) /\ attempt[t] = 3 /\ gets[t] = 3 /\ sleeps[t] = 3

\* C17: when the gate answers "disallowed" and respect_robots is false,
\* get_html logs the violation at info level and goes on to the politeness
\* sleep and the GET; the call never raises PermissionError, and it ends only
\* after a GET, with the outcome its last response gives
C17_DisallowedButNotEnforced ==
    /\ [](\A t \in Threads :
            (op[t] = "get_html" /\ ~respect_robots[t]) =>
                /\ result[t].exc.kind # "PermissionError"
                /\ ~allowed[t] =>
                      /\ Log("info", "proceeding anyway") \in log[t]
                      /\ pc[t] = "done" =>
                            /\ gets[t] >= 1
                            /\ sleeps[t] = gets[t]
                            /\ result[t] = OutcomeOf(resp[t], attempt[t]))
    /\ [][\A t \in Threads :
            ( /\ op[t] = "get_html" /\ ~respect_robots[t]
              /\ pc[t] \in {"robots_lookup", "robots_install"}
              /\ pc'[t] \notin {pc[t], "robots_fetch"}
              /\ ~allowed'[t] )
            => pc'[t] = "polite_sleep"]_vars

\* a disallowed url fetched with respect_robots false: the body is returned
C17_Witness ==
    \E t \in Threads :
        /\ EndedGetHtml(t) /\ ~respect_robots[t] /\ ~allowed[t]
        /\ Log("info", "proceeding anyway") \in log[t]
        /\ gets[t] = 1
        /\ result[t] = Returned("b1")

\* C11: harvest_links never raises: whatever the session, the fetch and the
\* markup are, the call ends by returning a list
C11_HarvestNeverRaises ==
    h_pc = "done" => h_result.kind = "return"

\* C12: every url harvest_links returns has scheme https, host exactly
\* www.avanza.se, a path that contains /aktier/om-aktien/ and no fragment
C12_OnlyAvanzaStockLinks ==
    h_pc = "done" =>
        \A i \in 1..Len(h_result.list) :
            LET u == h_result.list[i]
            IN  /\ u.scheme = "https"
                /\ u.netloc = "www.avanza.se"
                /\ \E k \in 1..Len(u.segs) :
                      /\ k + 2 <= Len(u.segs)
                      /\ u.segs[k] = "aktier" /\ u.segs[k + 1] = "om-aktien"
                /\ u.fragment = ""

\* the anchors of the page the harvest call fetched
FetchedAnchors == h_fetch.text.anchors

\* a page with an http link and a link with a fragment: only the second is
\* returned, without its fragment
C12_Witness ==
    /\ h_pc = "done" /\ h_parsed
    /\ FetchedAnchors =
          << Href("http", "www.avanza.se", TRUE, <<"aktier", "om-aktien", "x">>, "", ""),
             Href("", "", TRUE, <<"aktier", "om-aktien", "x">>, "", "s") >>
    /\ h_result = HReturned(<< Url("https", "www.avanza.se",
                                  <<"aktier", "om-aktien", "x">>, "", "") >>)

\* C13: every url harvest_links returns starts with
\* https://www.avanza.se/aktier/om-aktien/
C13_StockPrefix ==
    h_pc = "done" =>
        \A i \in 1..Len(h_result.list) :
            LET u == h_result.list[i]
            IN  /\ u.scheme = "https"
                /\ u.netloc = "www.avanza.se"
                /\ Len(u.segs) >= 3
                /\ u.segs[1] = "aktier" /\ u.segs[2] = "om-aktien"

\* the canonical url an anchor contributes, or None when it contributes none
Canonical(a) ==
    LET h == HrefOf(a)
    IN  IF h = EmptyHref \/ ~(RawHasMarker(h) \/ RelativePathMatch(h)) THEN None
        ELSE IF urljoin(h).kind = "ValueError" THEN None
        ELSE IF ~Accepted(urljoin(h)) THEN None
        ELSE Cleaned(urljoin(h))

\* the position of the first anchor that contributes url u
FirstAnchor(u) ==
    CHOOSE i \in 1..Len(FetchedAnchors) :
        /\ Canonical(FetchedAnchors[i]) = u
        /\ \A j \in 1..(i - 1) : Canonical(FetchedAnchors[j]) # u

C18_FetchFailureGivesEmpty ==
    ( /\ h_pc = "done"
      /\ h_fetch_calls >= 1
      /\ \/ h_fetch.kind = "raise"
         \/ h_fetch.kind = "return" /\ h_fetch.text.raw_len < 100 )
    => /\ h_result = HReturned(<< >>)
       /\ h_fetch_calls = 1
       /\ ~h_parsed

\* a text of 99 characters that holds a stock link
C18_Witness ==
    /\ h_pc = "done"
    /\ h_fetch.kind = "return"
    /\ h_fetch.text.raw_len = 99
    /\ Len(h_fetch.text.anchors) = 1
    /\ h_result = HReturned(<< >>)

\* C19: harvest_links(None) returns [] without calling get_html, the robots
\* gate or the transport, and leaves the robots cache as it was
C19_NoSessionNoFetch ==
    /\ []((h_pc = "done" /\ h_session = None) =>
              /\ h_result = HReturned(<< >>)
              /\ h_fetch_calls = 0)
    /\ [][(h_pc' = "done" /\ h_budget' # h_budget /\ h_session' = None) =>
              UNCHANGED << ROBOTS_CACHE, robots_gets, gets, sleeps, pc, op,
                           attempt, result >>]_vars

\* a call without a session while the cache holds a ruleset
C19_Witness ==
    /\ h_pc = "done" /\ h_session = None
    /\ ROBOTS_CACHE["h1"] # None
    /\ robots_gets = [h \in Hosts |-> IF h = "h1" THEN 1 ELSE 0]

\* C20: insert_metric with a natural key (stock_id, metric_key, as_of_date)
\* that a row already holds updates that row and returns its id: no second
\* row, no error
C20_InsertMetricIdempotent ==
    ( /\ db_call # None
      /\ db_call.op = "insert_metric"
      /\ db_call.before # {}
      /\ db_call.metric_value # "" )
    => /\ db_result.kind = "return"
       /\ \E r \in db_call.before : db_result.id = r.id
       /\ Cardinality(SameKey(metrics, db_call.stock_id, db_call.metric_key,
                              db_call.as_of_date)) = 1

\* the row of stocks that holds a ticker
StockRows(rows, ticker) == { r \in rows : r.ticker = ticker }

\* C21: stocks holds one row per ticker used; an upsert_stock call returns
\* the id the ticker's row has had since its first call and leaves the row
\* with the call's name and avanza_url; no other row changes, and a call
\* that repeats the previous call changes nothing
C21_UpsertStockIdempotent ==
    /\ [](\A r1, r2 \in stocks : r1.ticker = r2.ticker => r1 = r2)
    /\ []((db_call # None /\ db_call.op = "upsert_stock" /\ db_call.ticker # " ") =>
              /\ db_result.kind = "return"
              /\ StockRows(stocks, db_call.ticker) =
                    { [id |-> db_result.id, ticker |-> db_call.ticker,
                       name |-> db_call.name, avanza_url |-> db_call.avanza_url] })
    /\ [][ /\ \A r \in stocks : \E q \in stocks' : q.ticker = r.ticker /\ q.id = r.id
           /\ (db_call' # None /\ db_call'.op = "upsert_stock") =>
                 /\ \A q \in stocks' :
                       q.ticker # db_call'.ticker => q \in stocks
                 /\ {q.ticker : q \in stocks'} =
                       {r.ticker : r \in stocks}
                       \cup (IF db_call'.ticker = " " THEN {} ELSE {db_call'.ticker})
                 /\ (db_call' = db_call /\ db_result.kind = "return") =>
                       stocks' = stocks /\ db_result' = db_result ]_vars

\* a second call for a ticker changed the row's name and url and returned
\* the first call's id, while the other ticker's row stayed
C21_Witness ==
    /\ db_call # None /\ db_call.op = "upsert_stock"
    /\ db_budget = MaxDbCalls - 3
    /\ db_result = DbReturned(1)
    /\ stocks = { [id |-> 1, ticker |-> "ABB", name |-> "n2",
                    avanza_url |-> "https://www.avanza.se/aktier/om-aktien/y"],
                  [id |-> 2, ticker |-> "SEB", name |-> "n1", avanza_url |-> StockUrl] }

\* C23: check_robots_allowed on a url with an empty authority returns true
\* in its first step, without a robots.txt request, a GET or a sleep, and
\* with every robots cache entry as it was
C23_EmptyNetlocAllowed ==
    /\ [](\A t \in Threads :
            (op[t] = "check" /\ url[t].netloc = "" /\ pc[t] # "robots_lookup") =>
                /\ pc[t] = "done"
                /\ result[t] = ReturnedBool(TRUE)
                /\ Log("warning", "Invalid URL for robots.txt check") \in log[t])
    /\ [][\A t \in Threads :
            (op[t] = "check" /\ url[t].netloc = "" /\ pc[t] = "robots_lookup"
             /\ pc'[t] # pc[t]) =>
                UNCHANGED << ROBOTS_CACHE, robots_gets, gets, sleeps >>]_vars

\* the query ended while the cache held a ruleset of a host
C23_Witness ==
    \E t \in Threads :
        /\ op[t] = "check" /\ url[t].netloc = "" /\ pc[t] = "done"
        /\ result[t] = ReturnedBool(TRUE)
        /\ ROBOTS_CACHE["h1"] # None

\* C25: a get_html call consults the robots gate once, before its first
\* attempt: no later attempt is at the robots check, and a call that passed
\* the check does not end with PermissionError
C25_RobotsCheckedOncePerCall ==
    \A t \in Threads :
        op[t] = "get_html" =>
            /\ pc[t] \in {"robots_lookup", "robots_fetch", "robots_wait", "robots_install"}
                  => attempt[t] = 1
            /\ result[t].exc.kind = "PermissionError" => attempt[t] = 1

C28_BackoffBetweenAttempts ==
    /\ [](\A t \in Threads :
            op[t] = "get_html" =>
                /\ pc[t] = "request" => waited[t] = Polite
                /\ pc[t] = "done" => waited[t].kind # "backoff")
    /\ [][\A t \in Threads :
            (op[t] = "get_html" /\ pc[t] = "polite_sleep" /\ pc'[t] = "request") =>
                IF attempt[t] = 1 THEN waited[t] = NoWait
                ELSE waited[t].kind = "backoff"]_vars
    /\ [][\A t \in Threads :
            (waited'[t].kind = "backoff" /\ waited[t].kind # "backoff") =>
                LET k == attempt[t]
                    base == IF 500 * 2 ^ (k - 1) < 8000
                            THEN 500 * 2 ^ (k - 1) ELSE 8000
                IN  /\ k \in 1..4
                    /\ pc[t] = "retry_wait"
                    /\ attempt'[t] = k + 1
                    /\ waited'[t].ms >= base
                    /\ waited'[t].ms <= base + 500]_vars

\* C29: every request a get_html call sends, the robots.txt request on a cache
\* miss included, comes after a politeness delay of that call.
C29_DelayBeforeEveryRequest ==
    \A t \in Threads :
        (op[t] = "get_html" /\ pc[t] \in {"robots_wait", "request"}) =>
            waited[t] = Polite

\* C30: the robots cache is keyed by the authority alone: urls of one
\* authority under http and under https share one ruleset, requested once from
\* the robots.txt url built with the scheme of the first query, so that at
\* most one robots.txt url per authority is ever requested and the other
\* scheme's robots.txt never is.
C30_CacheKeyedByNetloc ==
    \A h \in Hosts :
        /\ Cardinality({r \in robots_urls : r.netloc = h}) <= 1
        /\ ROBOTS_CACHE[h] # None => \E r \in robots_urls : r.netloc = h

\* C27: the attempt counter belongs to one get_html call: every call starts
\* at attempt 1, its counter moves only with its own steps, it counts that
\* call's GETs, and a call gives up on a retryable error only after 5 GETs of
\* its own, whatever earlier calls or calls in other threads have used.
C27_AttemptsPerCall ==
    /\ [](\A t \in Threads :
            op[t] = "get_html" =>
                /\ pc[t] \in {"polite_sleep", "request"} => gets[t] = attempt[t] - 1
                /\ (/\ pc[t] = "done"
                    /\ result[t].kind = "raise"
                    /\ result[t].exc.kind = "HTTPError"
                    /\ result[t].exc.status \in STATUS_FOR_RETRY)
                   => gets[t] = 5)
    /\ [][\A t \in Threads :
            /\ attempt'[t] # attempt[t] => pc'[t] # pc[t]
            /\ (pc[t] \in {"idle", "done"} /\ pc'[t] = "robots_lookup") => attempt'[t] = 1]_vars

C27_Witness ==
    /\ \A t \in Threads :
        /\ op[t] = "get_html"
        /\ gets[t] = 5
        /\ result[t] = Raised(HTTPError(500, 5))
    /\ pc["t2"] = "done"
    /\ pc["t1"] = "done"
    /\ budget["t1"] = 0

C24_PoliteSleepContract ==
    ps_budget < MaxSleepCalls =>
        IF ps_env = "1"
        THEN ps_slept = << >> /\ ps_result = 0
        ELSE /\ Len(ps_slept) = 1
             /\ ps_slept[1] = ps_result
             /\ ps_min <= ps_result
             /\ ps_result <= ps_max

\* the value "0" does not switch the delay off: a default call sleeps 1.5 s
C24_Witness ==
    /\ ps_budget < MaxSleepCalls
    /\ ps_env = "0"
    /\ ps_min = 500 /\ ps_max = 1500
    /\ ps_slept = << 1500 >>
    /\ ps_result = 1500

\* C31: an anchor contributes to the result of harvest_links exactly when
\* its trimmed raw href contains /aktier/om-aktien/ and its resolution against
\* the seed url has scheme https, host www.avanza.se and a path containing
\* /aktier/om-aktien/: the resolved url of every such anchor, with its query
\* and without its fragment, is in the result, and the result holds nothing
\* else; urls that differ in their query are different entries.
MarkerInSegs(abs, segs) ==
    \E i \in 1..Len(segs) :
        /\ i + 2 <= Len(segs)
        /\ segs[i] = "aktier" /\ segs[i + 1] = "om-aktien"
        /\ (abs \/ i > 1)

InScope(a) ==
    /\ a # None
    /\ \/ MarkerInSegs(a.abs, a.segs)
       \/ a.query = "r=/aktier/om-aktien/x"
       \/ a.fragment = "/aktier/om-aktien/x"
    /\ LET r == urljoin([a EXCEPT !.pad = FALSE])
       IN  /\ r.kind = "url"
           /\ r.scheme = "https"
           /\ r.netloc = "www.avanza.se"
           /\ MarkerInSegs(TRUE, r.segs)

Resolved(a) == [urljoin([a EXCEPT !.pad = FALSE]) EXCEPT !.fragment = ""]

C31_AnchorContributesIff ==
    (h_pc = "done" /\ h_parsed) =>
        /\ \A k \in 1..Len(FetchedAnchors) :
              InScope(FetchedAnchors[k]) =>
                  \E i \in 1..Len(h_result.list) :
                      h_result.list[i] = Resolved(FetchedAnchors[k])
        /\ \A i \in 1..Len(h_result.list) :
              \E k \in 1..Len(FetchedAnchors) :
                  /\ InScope(FetchedAnchors[k])
                  /\ h_result.list[i] = Resolved(FetchedAnchors[k])

\* C32: a datastore write that raises leaves both tables as they were: an
\* empty ticker, key or value is rejected with ValueError before a connection
\* is opened; a unique or foreign-key violation, or a failed commit, is rolled
\* back and raised to the caller, and the call's connection is closed.
C32_FailedWriteChangesNothing ==
    [][db_budget' # db_budget =>
          LET c == db_call'
              empty == IF c.op = "upsert_stock" THEN c.ticker = " "
                       ELSE c.metric_key = " " \/ c.metric_value = ""
              violates == /\ c.op = "insert_metric"
                          /\ \/ \A st \in stocks : st.id # c.stock_id
                             \/ \E m \in metrics :
                                   /\ m.stock_id = c.stock_id
                                   /\ m.metric_key = c.metric_key
                                   /\ m.as_of_date = c.as_of_date
          IN  /\ empty => db_result' = DbRaised("ValueError") /\ db_conn' = "none"
              /\ (~empty /\ violates) => db_result' = DbRaised("IntegrityError")
              /\ ~empty => db_conn' = "closed"
              /\ db_result'.kind = "raise" => stocks' = stocks /\ metrics' = metrics
              /\ db_result'.kind = "return" => ~empty /\ ~violates]_vars

\* with two rows stored, a repeated metric is refused and both tables stay
C32_Witness ==
    /\ db_call # None /\ db_call.op = "insert_metric"
    /\ db_result = DbRaised("IntegrityError")
    /\ db_conn = "closed"
    /\ Cardinality(stocks) = 1
    /\ Cardinality(metrics) = 1
    /\ db_call.before # {}

====
